---- MODULE Spec2Model ----
(***************************************************************************)
(* Model of backend/app.py: the schema catalog SCHEMA_DICT, the            *)
(* column-name-driven row synthesizer generate_dummy_data, and the two     *)
(* routes get_schema and download_csv.                                     *)
(*                                                                         *)
(* Text (column names, generated strings, CSV lines) is a sequence of      *)
(* one-character strings, so that substring tests, lower-casing and CSV    *)
(* quoting are computed character by character.  Table names, which the    *)
(* code only compares and splices into messages, are plain strings.        *)
(***************************************************************************)
EXTENDS Integers, Sequences, FiniteSets, TLC

VARIABLES SCHEMA_DICT, rand_state, fake_state, now, response, gen_calls, data_rows

vars == <<SCHEMA_DICT, rand_state, fake_state, now, response, gen_calls, data_rows>>

(***************************************************************************)
(* Bounds of the model.                                                    *)
(***************************************************************************)
\* number of distinct states of the module-level pseudo-random source
RandStates == 3
\* number of distinct states of the Faker instance's own random source
FakeStates == 3
\* largest num_rows of a direct call of generate_dummy_data
MaxRows == 2

\* F applied to the value of v, which is computed once
Bind(v, F(_)) == CHOOSE r \in {F(x) : x \in {v}} : TRUE

(***************************************************************************)
(* Text helpers: str.lower(), the `in` substring test, str(int).           *)
(***************************************************************************)
UpperToLower ==
    "A" :> "a" @@ "B" :> "b" @@ "C" :> "c" @@ "D" :> "d" @@ "E" :> "e" @@
    "F" :> "f" @@ "G" :> "g" @@ "H" :> "h" @@ "I" :> "i" @@ "J" :> "j" @@
    "K" :> "k" @@ "L" :> "l" @@ "M" :> "m" @@ "N" :> "n" @@ "O" :> "o" @@
    "P" :> "p" @@ "Q" :> "q" @@ "R" :> "r" @@ "S" :> "s" @@ "T" :> "t" @@
    "U" :> "u" @@ "V" :> "v" @@ "W" :> "w" @@ "X" :> "x" @@ "Y" :> "y" @@
    "Z" :> "z"

\* col.lower()
Lower(s) ==
    [k \in 1..Len(s) |-> IF s[k] \in DOMAIN UpperToLower THEN UpperToLower[s[k]] ELSE s[k]]

\* str.startswith in place of `in`: the keyword must start the name
Contains_startswith(s, p) ==
    /\ Len(p) <= Len(s)
    /\ \A j \in 1..Len(p) : s[j] = p[j]

\* p in s
Contains(s, p) ==
    \E k \in 0..(Len(s) - Len(p)) : \A j \in 1..Len(p) : s[k + j] = p[j]

Digits == <<"0", "1", "2", "3", "4", "5", "6", "7", "8", "9">>

RECURSIVE IntToChars(_)
\* str(n) for n >= 0
IntToChars(n) ==
    IF n < 10 THEN <<Digits[n + 1]>>
    ELSE IntToChars(n \div 10) \o <<Digits[(n % 10) + 1]>>

RECURSIVE ZeroPad(_, _)
\* str(n).zfill(width)
ZeroPad(n, width) ==
    IF width <= 1 THEN IntToChars(n)
    ELSE IF Len(IntToChars(n)) >= width THEN IntToChars(n)
    ELSE <<"0">> \o ZeroPad(n, width - 1)

(***************************************************************************)
(* Configuration: the catalog as the module defines it.                    *)
(***************************************************************************)
InitialSchema ==
    [t \in {"Customers", "Products", "Orders", "Employees", "Suppliers",
            "Categories", "Payments", "Inventory", "Reviews", "Shipments"} |->
     CASE t = "Customers" ->
            <<<<"C","u","s","t","o","m","e","r","I","D">>, <<"F","i","r","s","t","N","a","m","e">>, <<"L","a","s","t","N","a","m","e">>, <<"E","m","a","i","l">>, <<"P","h","o","n","e">>,
              <<"A","g","e">>, <<"A","d","d","r","e","s","s">>, <<"C","i","t","y">>, <<"C","o","u","n","t","r","y">>, <<"J","o","i","n","D","a","t","e">>>>
       [] t = "Products" ->
            <<<<"P","r","o","d","u","c","t","I","D">>, <<"P","r","o","d","u","c","t","N","a","m","e">>, <<"C","a","t","e","g","o","r","y">>, <<"P","r","i","c","e">>, <<"S","t","o","c","k","Q","u","a","n","t","i","t","y">>,
              <<"S","u","p","p","l","i","e","r","I","D">>, <<"M","a","n","u","f","a","c","t","u","r","e","r">>, <<"W","e","i","g","h","t">>, <<"E","x","p","i","r","y","D","a","t","e">>, <<"I","s","A","c","t","i","v","e">>>>
       [] t = "Orders" ->
            <<<<"O","r","d","e","r","I","D">>, <<"C","u","s","t","o","m","e","r","I","D">>, <<"O","r","d","e","r","D","a","t","e">>, <<"T","o","t","a","l","A","m","o","u","n","t">>, <<"S","h","i","p","p","i","n","g","A","d","d","r","e","s","s">>,
              <<"C","i","t","y">>, <<"P","o","s","t","a","l","C","o","d","e">>, <<"S","t","a","t","u","s">>, <<"P","a","y","m","e","n","t","M","e","t","h","o","d">>, <<"D","e","l","i","v","e","r","y","D","a","t","e">>>>
       [] t = "Employees" ->
            <<<<"E","m","p","l","o","y","e","e","I","D">>, <<"F","i","r","s","t","N","a","m","e">>, <<"L","a","s","t","N","a","m","e">>, <<"P","o","s","i","t","i","o","n">>, <<"D","e","p","a","r","t","m","e","n","t">>,
              <<"S","a","l","a","r","y">>, <<"H","i","r","e","D","a","t","e">>, <<"E","m","a","i","l">>, <<"P","h","o","n","e">>, <<"M","a","n","a","g","e","r","I","D">>>>
       [] t = "Suppliers" ->
            <<<<"S","u","p","p","l","i","e","r","I","D">>, <<"C","o","m","p","a","n","y","N","a","m","e">>, <<"C","o","n","t","a","c","t","N","a","m","e">>, <<"A","d","d","r","e","s","s">>, <<"C","i","t","y">>,
              <<"C","o","u","n","t","r","y">>, <<"P","h","o","n","e">>, <<"E","m","a","i","l">>, <<"P","r","o","d","u","c","t","C","a","t","e","g","o","r","y">>, <<"R","a","t","i","n","g">>>>
       [] t = "Categories" ->
            <<<<"C","a","t","e","g","o","r","y","I","D">>, <<"C","a","t","e","g","o","r","y","N","a","m","e">>, <<"D","e","s","c","r","i","p","t","i","o","n">>, <<"P","a","r","e","n","t","C","a","t","e","g","o","r","y","I","D">>, <<"C","r","e","a","t","e","d","D","a","t","e">>,
              <<"U","p","d","a","t","e","d","D","a","t","e">>, <<"I","m","a","g","e","U","R","L">>, <<"S","o","r","t","O","r","d","e","r">>, <<"I","s","A","c","t","i","v","e">>, <<"P","r","o","d","u","c","t","C","o","u","n","t">>>>
       [] t = "Payments" ->
            <<<<"P","a","y","m","e","n","t","I","D">>, <<"O","r","d","e","r","I","D">>, <<"P","a","y","m","e","n","t","D","a","t","e">>, <<"A","m","o","u","n","t">>, <<"P","a","y","m","e","n","t","M","e","t","h","o","d">>,
              <<"T","r","a","n","s","a","c","t","i","o","n","I","D">>, <<"S","t","a","t","u","s">>, <<"C","a","r","d","L","a","s","t","F","o","u","r">>, <<"C","u","r","r","e","n","c","y">>, <<"R","e","f","u","n","d","A","m","o","u","n","t">>>>
       [] t = "Inventory" ->
            <<<<"I","n","v","e","n","t","o","r","y","I","D">>, <<"P","r","o","d","u","c","t","I","D">>, <<"W","a","r","e","h","o","u","s","e","I","D">>, <<"Q","u","a","n","t","i","t","y">>, <<"M","i","n","S","t","o","c","k","L","e","v","e","l">>,
              <<"R","e","o","r","d","e","r","P","o","i","n","t">>, <<"L","a","s","t","U","p","d","a","t","e","d">>, <<"L","o","c","a","t","i","o","n">>, <<"B","a","t","c","h","N","u","m","b","e","r">>, <<"E","x","p","i","r","y","D","a","t","e">>>>
       [] t = "Reviews" ->
            <<<<"R","e","v","i","e","w","I","D">>, <<"P","r","o","d","u","c","t","I","D">>, <<"C","u","s","t","o","m","e","r","I","D">>, <<"R","a","t","i","n","g">>, <<"C","o","m","m","e","n","t">>,
              <<"R","e","v","i","e","w","D","a","t","e">>, <<"H","e","l","p","f","u","l","C","o","u","n","t">>, <<"V","e","r","i","f","i","e","d","P","u","r","c","h","a","s","e">>, <<"T","i","t","l","e">>, <<"R","e","s","p","o","n","s","e">>>>
       [] t = "Shipments" ->
            <<<<"S","h","i","p","m","e","n","t","I","D">>, <<"O","r","d","e","r","I","D">>, <<"C","a","r","r","i","e","r">>, <<"T","r","a","c","k","i","n","g","N","u","m","b","e","r">>, <<"S","h","i","p","D","a","t","e">>,
              <<"E","s","t","i","m","a","t","e","d","D","e","l","i","v","e","r","y">>, <<"A","c","t","u","a","l","D","e","l","i","v","e","r","y">>, <<"S","h","i","p","p","i","n","g","C","o","s","t">>, <<"S","t","a","t","u","s">>, <<"D","e","l","i","v","e","r","y","A","d","d","r","e","s","s">>>>]

\* num_rows=10 as download_csv passes it
NUM_ROWS == 10

STATUSES == <<<<"P","e","n","d","i","n","g">>, <<"S","h","i","p","p","e","d">>, <<"D","e","l","i","v","e","r","e","d">>, <<"C","a","n","c","e","l","l","e","d">>>>
PAYMENT_METHODS == <<<<"C","r","e","d","i","t"," ","C","a","r","d">>, <<"P","a","y","P","a","l">>, <<"T","r","a","n","s","f","e","r">>>>
CATEGORIES == <<<<"E","l","e","c","t","r","o","n","i","c","s">>, <<"B","o","o","k","s">>, <<"C","l","o","t","h","i","n","g">>, <<"H","o","m","e"," ","G","o","o","d","s">>>>
DEPARTMENTS == <<<<"S","a","l","e","s">>, <<"M","a","r","k","e","t","i","n","g">>, <<"I","T">>, <<"H","R">>, <<"F","i","n","a","n","c","e">>>>

(***************************************************************************)
(* The pseudo-random source (module random) and the Faker instance.  Each  *)
(* is a generator with a state that every draw advances; a draw's outcome  *)
(* is a function of the state before it.                                   *)
(***************************************************************************)
NextRand(rand) == (rand + 1) % RandStates
NextFake(fk) == (fk + 1) % FakeStates

\* random.randint(lo, hi): lo for the least draw, hi for the greatest
RandInt(lo, hi, rand) == lo + (rand * (hi - lo)) \div (RandStates - 1)

\* random.choice(seq)
Choice(seq, rand) == seq[1 + (rand * (Len(seq) - 1)) \div (RandStates - 1)]

\* one of the provider's sample outputs
Pick(samples, fk) == samples[(fk % Len(samples)) + 1]

FakeCatchPhrase == <<<<"M","u","l","t","i","-","l","a","y","e","r","e","d"," ","z","e","r","o","-","d","e","f","e","c","t"," ","h","u","b">>, <<"U","p","-","s","i","z","e","d"," ","m","o","d","u","l","a","r"," ","a","r","r","a","y">>>>
FakeName == <<<<"J","o","h","n"," ","S","m","i","t","h">>, <<"M","a","r","y"," ","O","'","N","e","i","l">>, <<"D","r","."," ","A","n","n"," ","L","e","e">>>>
FakeFirstName == <<<<"J","o","h","n">>, <<"M","a","r","y">>>>
FakeLastName == <<<<"S","m","i","t","h">>, <<"O","'","N","e","i","l">>>>
FakeEmail == <<<<"j","s","m","i","t","h","@","e","x","a","m","p","l","e",".","o","r","g">>, <<"m","a","r","y","@","e","x","a","m","p","l","e",".","c","o","m">>>>
FakePhone == <<<<"0","0","1","-","5","5","5","-","0","1","0","0","x","4","2">>, <<"(","5","5","5",")","0","1","0","-","9","9","9","9">>>>
FakeStreetAddress == <<<<"1","2","3"," ","M","a","i","n"," ","S","t","r","e","e","t">>, <<"9"," ","O","a","k"," ","A","v","e"," ","A","p","t","."," ","4">>>>
FakeCity == <<<<"P","o","r","t"," ","M","a","r","i","a">>, <<"L","a","k","e"," ","T","o","m">>>>
FakeCountry == <<<<"P","e","r","u">>, <<"S","a","i","n","t"," ","L","u","c","i","a">>>>
FakeJob == <<<<"E","n","g","i","n","e","e","r",","," ","c","i","v","i","l"," ","(","c","o","n","s","u","l","t","i","n","g",")">>, <<"N","u","r","s","e">>, <<"E","d","i","t","o","r",","," ","f","i","l","m","/","v","i","d","e","o">>>>
FakeSentence == <<<<"O","v","e","r"," ","i","t"," ","a","l","l"," ","s","h","e"," ","s","a","i","d"," ","y","e","s",".">>, <<"H","e"," ","s","a","w"," ","r","e","d"," ","o","n","c","e"," ","m","o","r","e"," ","n","o","w",".">>>>

(***************************************************************************)
(* Calendar dates: datetime.now(), timedelta(days=n), date.isoformat().    *)
(***************************************************************************)
IsLeap(y) == (y % 4 = 0 /\ y % 100 # 0) \/ y % 400 = 0

DaysInMonth(y, m) ==
    IF m = 2 THEN (IF IsLeap(y) THEN 29 ELSE 28)
    ELSE IF m \in {4, 6, 9, 11} THEN 30 ELSE 31

\* days of the year before the first of each month of a common year
DAYS_BEFORE_MONTH == <<0, 31, 59, 90, 120, 151, 181, 212, 243, 273, 304, 334>>

DaysBeforeMonth(y, m) == DAYS_BEFORE_MONTH[m] + (IF m > 2 /\ IsLeap(y) THEN 1 ELSE 0)

DaysInYear(y) == IF IsLeap(y) THEN 366 ELSE 365

\* d.timetuple().tm_yday
DayOfYear(d) == DaysBeforeMonth(d.year, d.month) + d.day

\* the n-th day of year y, 1 <= n <= DaysInYear(y)
FromYearDay(y, n) ==
    LET m == CHOOSE mm \in 1..12 :
                 /\ DaysBeforeMonth(y, mm) < n
                 /\ n <= DaysBeforeMonth(y, mm) + DaysInMonth(y, mm)
    IN  [year |-> y, month |-> m, day |-> n - DaysBeforeMonth(y, m)]

\* d + timedelta(days=n), 0 <= n <= 365
AddDays(d, n) ==
    IF DayOfYear(d) + n <= DaysInYear(d.year)
    THEN FromYearDay(d.year, DayOfYear(d) + n)
    ELSE FromYearDay(d.year + 1, DayOfYear(d) + n - DaysInYear(d.year))

\* d.isoformat()
IsoFormat(d) ==
    ZeroPad(d.year, 4) \o <<"-">> \o ZeroPad(d.month, 2) \o <<"-">> \o ZeroPad(d.day, 2)

\* the days on which the service is started in the model
Dates == {[year |-> 2024, month |-> 2, day |-> 25],
          [year |-> 2025, month |-> 12, day |-> 30]}

(***************************************************************************)
(* Cell values.  rule is the branch of the if/elif chain that produced the *)
(* value and gen the generator call inside it; type is the Python type;    *)
(* a float rounded to d decimals is kept as v / scale with scale = 10^d.   *)
(***************************************************************************)
IntVal(rule, gen, n) == [rule |-> rule, gen |-> gen, type |-> "int", v |-> n, scale |-> 1]
FloatVal(rule, gen, n, scale) ==
    [rule |-> rule, gen |-> gen, type |-> "float", v |-> n, scale |-> scale]
StrVal(rule, gen, s) == [rule |-> rule, gen |-> gen, type |-> "str", v |-> s, scale |-> 1]
BoolVal(rule, gen, b) == [rule |-> rule, gen |-> gen, type |-> "bool", v |-> b, scale |-> 1]

\* a cell together with the generator states after producing it
UsesRand(cell, rand, fk) == [cell |-> cell, rand |-> NextRand(rand), fake |-> fk]
UsesFake(cell, rand, fk) == [cell |-> cell, rand |-> rand, fake |-> NextFake(fk)]
UsesNone(cell, rand, fk) == [cell |-> cell, rand |-> rand, fake |-> fk]

\* the if/elif chain of generate_dummy_data with `first` tested before `name`
Classify_first_before_name(col_lower) ==
    IF Contains(col_lower, <<"i","d">>) THEN "id"
    ELSE IF Contains(col_lower, <<"f","i","r","s","t">>) THEN "first"
    ELSE IF Contains(col_lower, <<"n","a","m","e">>) \/ Contains(col_lower, <<"t","i","t","l","e">>) THEN "name"
    ELSE IF Contains(col_lower, <<"l","a","s","t">>) THEN "last"
    ELSE IF Contains(col_lower, <<"e","m","a","i","l">>) THEN "email"
    ELSE IF Contains(col_lower, <<"p","h","o","n","e">>) THEN "phone"
    ELSE IF Contains(col_lower, <<"a","d","d","r","e","s","s">>) \/ Contains(col_lower, <<"l","o","c","a","t","i","o","n">>) THEN "address"
    ELSE IF Contains(col_lower, <<"c","i","t","y">>) THEN "city"
    ELSE IF Contains(col_lower, <<"c","o","u","n","t","r","y">>) THEN "country"
    ELSE IF Contains(col_lower, <<"p","o","s","i","t","i","o","n">>) THEN "position"
    ELSE IF Contains(col_lower, <<"d","e","p","a","r","t","m","e","n","t">>) THEN "department"
    ELSE IF Contains(col_lower, <<"d","e","s","c","r","i","p","t","i","o","n">>) \/ Contains(col_lower, <<"c","o","m","m","e","n","t">>)
         THEN "description"
    ELSE IF Contains(col_lower, <<"a","g","e">>) THEN "age"
    ELSE IF Contains(col_lower, <<"p","r","i","c","e">>) \/ Contains(col_lower, <<"a","m","o","u","n","t">>)
            \/ Contains(col_lower, <<"c","o","s","t">>) THEN "price"
    ELSE IF Contains(col_lower, <<"s","a","l","a","r","y">>) THEN "salary"
    ELSE IF Contains(col_lower, <<"s","t","o","c","k">>) \/ Contains(col_lower, <<"q","u","a","n","t","i","t","y">>) THEN "stock"
    ELSE IF Contains(col_lower, <<"r","a","t","i","n","g">>) THEN "rating"
    ELSE IF Contains(col_lower, <<"c","o","u","n","t">>) THEN "count"
    ELSE IF Contains(col_lower, <<"d","a","t","e">>) THEN "date"
    ELSE IF Contains(col_lower, <<"s","t","a","t","u","s">>) THEN "status"
    ELSE IF Contains(col_lower, <<"m","e","t","h","o","d">>) THEN "method"
    ELSE IF Contains(col_lower, <<"c","a","t","e","g","o","r","y">>) THEN "category"
    ELSE IF Contains(col_lower, <<"a","c","t","i","v","e">>) THEN "active"
    ELSE "fallback"

\* the conditions of the if/elif chain of generate_dummy_data, in its order
Classify(col_lower) ==
    IF Contains(col_lower, <<"i","d">>) THEN "id"
    ELSE IF Contains(col_lower, <<"n","a","m","e">>) \/ Contains(col_lower, <<"t","i","t","l","e">>) THEN "name"
    ELSE IF Contains(col_lower, <<"f","i","r","s","t">>) THEN "first"
    ELSE IF Contains(col_lower, <<"l","a","s","t">>) THEN "last"
    ELSE IF Contains(col_lower, <<"e","m","a","i","l">>) THEN "email"
    ELSE IF Contains(col_lower, <<"p","h","o","n","e">>) THEN "phone"
    ELSE IF Contains(col_lower, <<"a","d","d","r","e","s","s">>) \/ Contains(col_lower, <<"l","o","c","a","t","i","o","n">>) THEN "address"
    ELSE IF Contains(col_lower, <<"c","i","t","y">>) THEN "city"
    ELSE IF Contains(col_lower, <<"c","o","u","n","t","r","y">>) THEN "country"
    ELSE IF Contains(col_lower, <<"p","o","s","i","t","i","o","n">>) THEN "position"
    ELSE IF Contains(col_lower, <<"d","e","p","a","r","t","m","e","n","t">>) THEN "department"
    ELSE IF Contains(col_lower, <<"d","e","s","c","r","i","p","t","i","o","n">>) \/ Contains(col_lower, <<"c","o","m","m","e","n","t">>)
         THEN "description"
    ELSE IF Contains(col_lower, <<"a","g","e">>) THEN "age"
    ELSE IF Contains(col_lower, <<"p","r","i","c","e">>) \/ Contains(col_lower, <<"a","m","o","u","n","t">>)
            \/ Contains(col_lower, <<"c","o","s","t">>) THEN "price"
    ELSE IF Contains(col_lower, <<"s","a","l","a","r","y">>) THEN "salary"
    ELSE IF Contains(col_lower, <<"s","t","o","c","k">>) \/ Contains(col_lower, <<"q","u","a","n","t","i","t","y">>) THEN "stock"
    ELSE IF Contains(col_lower, <<"r","a","t","i","n","g">>) THEN "rating"
    ELSE IF Contains(col_lower, <<"c","o","u","n","t">>) THEN "count"
    ELSE IF Contains(col_lower, <<"d","a","t","e">>) THEN "date"
    ELSE IF Contains(col_lower, <<"s","t","a","t","u","s">>) THEN "status"
    ELSE IF Contains(col_lower, <<"m","e","t","h","o","d">>) THEN "method"
    ELSE IF Contains(col_lower, <<"c","a","t","e","g","o","r","y">>) THEN "category"
    ELSE IF Contains(col_lower, <<"a","c","t","i","v","e">>) THEN "active"
    ELSE "fallback"

\* the `id` branch with the row index counted from 0
IdRule_zero_based(col, col_lower, pk_name, i, rand, fk) ==
    IF col = pk_name THEN UsesNone(IntVal("id", "row_index", i - 1), rand, fk)
    ELSE IF Contains(col_lower, <<"c","u","s","t","o","m","e","r","i","d">>)
         THEN UsesRand(IntVal("id", "customerid", RandInt(1001, 1100, rand)), rand, fk)
    ELSE IF Contains(col_lower, <<"p","r","o","d","u","c","t","i","d">>)
         THEN UsesRand(IntVal("id", "productid", RandInt(2001, 2100, rand)), rand, fk)
    ELSE IF Contains(col_lower, <<"o","r","d","e","r","i","d">>)
         THEN UsesRand(IntVal("id", "orderid", RandInt(3001, 3100, rand)), rand, fk)
    ELSE UsesRand(IntVal("id", "otherid", RandInt(100, 999, rand)), rand, fk)

\* the `id` branch with the foreign-key ranges starting at the round thousand
IdRule_round_ranges(col, col_lower, pk_name, i, rand, fk) ==
    IF col = pk_name THEN UsesNone(IntVal("id", "row_index", i), rand, fk)
    ELSE IF Contains(col_lower, <<"c","u","s","t","o","m","e","r","i","d">>)
         THEN UsesRand(IntVal("id", "customerid", RandInt(1000, 1100, rand)), rand, fk)
    ELSE IF Contains(col_lower, <<"p","r","o","d","u","c","t","i","d">>)
         THEN UsesRand(IntVal("id", "productid", RandInt(2000, 2100, rand)), rand, fk)
    ELSE IF Contains(col_lower, <<"o","r","d","e","r","i","d">>)
         THEN UsesRand(IntVal("id", "orderid", RandInt(3000, 3100, rand)), rand, fk)
    ELSE UsesRand(IntVal("id", "otherid", RandInt(100, 999, rand)), rand, fk)

\* the `id` branch with the primary-key test done on lower-cased names
IdRule_pk_ignoring_case(col, col_lower, pk_name, i, rand, fk) ==
    IF col_lower = Lower(pk_name) THEN UsesNone(IntVal("id", "row_index", i), rand, fk)
    ELSE IF Contains(col_lower, <<"c","u","s","t","o","m","e","r","i","d">>)
         THEN UsesRand(IntVal("id", "customerid", RandInt(1001, 1100, rand)), rand, fk)
    ELSE IF Contains(col_lower, <<"p","r","o","d","u","c","t","i","d">>)
         THEN UsesRand(IntVal("id", "productid", RandInt(2001, 2100, rand)), rand, fk)
    ELSE IF Contains(col_lower, <<"o","r","d","e","r","i","d">>)
         THEN UsesRand(IntVal("id", "orderid", RandInt(3001, 3100, rand)), rand, fk)
    ELSE UsesRand(IntVal("id", "otherid", RandInt(100, 999, rand)), rand, fk)

\* if 'id' in col_lower: ...
IdRule(col, col_lower, pk_name, i, rand, fk) ==
    IF col = pk_name THEN UsesNone(IntVal("id", "row_index", i), rand, fk)
    ELSE IF Contains(col_lower, <<"c","u","s","t","o","m","e","r","i","d">>)
         THEN UsesRand(IntVal("id", "customerid", RandInt(1001, 1100, rand)), rand, fk)
    ELSE IF Contains(col_lower, <<"p","r","o","d","u","c","t","i","d">>)
         THEN UsesRand(IntVal("id", "productid", RandInt(2001, 2100, rand)), rand, fk)
    ELSE IF Contains(col_lower, <<"o","r","d","e","r","i","d">>)
         THEN UsesRand(IntVal("id", "orderid", RandInt(3001, 3100, rand)), rand, fk)
    ELSE UsesRand(IntVal("id", "otherid", RandInt(100, 999, rand)), rand, fk)

\* elif 'name' in col_lower or 'title' in col_lower: ...
NameRule(col_lower, rand, fk) ==
    IF Contains(col_lower, <<"p","r","o","d","u","c","t">>) \/ Contains(col_lower, <<"c","o","m","p","a","n","y">>)
    THEN UsesFake(StrVal("name", "catch_phrase", Pick(FakeCatchPhrase, fk)), rand, fk)
    ELSE UsesFake(StrVal("name", "name", Pick(FakeName, fk)), rand, fk)

\* fake.date_this_year(): a date from 1 January of this year to today
DateThisYear(today, fk) ==
    AddDays([today EXCEPT !.month = 1, !.day = 1],
            (fk * (DayOfYear(today) - 1)) \div (FakeStates - 1))

\* fake.date_this_month(): a date from the first of this month to today
DateThisMonth(today, fk) ==
    AddDays([today EXCEPT !.day = 1], (fk * (today.day - 1)) \div (FakeStates - 1))

\* elif 'date' in col_lower: ...
DateRule(col_lower, rand, fk, today) ==
    IF Contains(col_lower, <<"j","o","i","n">>) \/ Contains(col_lower, <<"h","i","r","e">>)
    THEN UsesFake(StrVal("date", "date_this_year", IsoFormat(DateThisYear(today, fk))),
                  rand, fk)
    ELSE IF Contains(col_lower, <<"d","e","l","i","v","e","r","y">>)
    THEN UsesRand(StrVal("date", "delivery",
                         IsoFormat(AddDays(today, RandInt(1, 10, rand)))), rand, fk)
    ELSE IF Contains(col_lower, <<"e","x","p","i","r","y">>)
    THEN UsesRand(StrVal("date", "expiry",
                         IsoFormat(AddDays(today, RandInt(30, 365, rand)))), rand, fk)
    ELSE UsesFake(StrVal("date", "date_this_month", IsoFormat(DateThisMonth(today, fk))),
                  rand, fk)

\* the body of `for col in columns`: the value of one cell
GenCell(col, pk_name, i, rand, fk, today) ==
    Bind(Lower(col), LAMBDA col_lower : Bind(Classify(col_lower), LAMBDA rule :
        CASE rule = "id" -> IdRule(col, col_lower, pk_name, i, rand, fk)
          [] rule = "name" -> NameRule(col_lower, rand, fk)
          [] rule = "first" ->
                UsesFake(StrVal(rule, "first_name", Pick(FakeFirstName, fk)), rand, fk)
          [] rule = "last" ->
                UsesFake(StrVal(rule, "last_name", Pick(FakeLastName, fk)), rand, fk)
          [] rule = "email" -> UsesFake(StrVal(rule, "email", Pick(FakeEmail, fk)), rand, fk)
          [] rule = "phone" ->
                UsesFake(StrVal(rule, "phone_number", Pick(FakePhone, fk)), rand, fk)
          [] rule = "address" ->
                UsesFake(StrVal(rule, "street_address", Pick(FakeStreetAddress, fk)), rand, fk)
          [] rule = "city" -> UsesFake(StrVal(rule, "city", Pick(FakeCity, fk)), rand, fk)
          [] rule = "country" ->
                UsesFake(StrVal(rule, "country", Pick(FakeCountry, fk)), rand, fk)
          [] rule = "position" -> UsesFake(StrVal(rule, "job", Pick(FakeJob, fk)), rand, fk)
          [] rule = "department" ->
                UsesRand(StrVal(rule, "department", Choice(DEPARTMENTS, rand)), rand, fk)
          [] rule = "description" ->
                UsesFake(StrVal(rule, "sentence", Pick(FakeSentence, fk)), rand, fk)
          [] rule = "age" -> UsesRand(IntVal(rule, "age", RandInt(18, 65, rand)), rand, fk)
          [] rule = "price" ->
                UsesRand(FloatVal(rule, "price", RandInt(500, 50000, rand), 100), rand, fk)
          [] rule = "salary" ->
                UsesRand(IntVal(rule, "salary", RandInt(40000, 150000, rand)), rand, fk)
          [] rule = "stock" ->
                UsesRand(IntVal(rule, "stock", RandInt(0, 1000, rand)), rand, fk)
          [] rule = "rating" ->
                UsesRand(FloatVal(rule, "rating", RandInt(10, 50, rand), 10), rand, fk)
          [] rule = "count" ->
                UsesRand(IntVal(rule, "count", RandInt(1, 200, rand)), rand, fk)
          [] rule = "date" -> DateRule(col_lower, rand, fk, today)
          [] rule = "status" ->
                UsesRand(StrVal(rule, "status", Choice(STATUSES, rand)), rand, fk)
          [] rule = "method" ->
                UsesRand(StrVal(rule, "method", Choice(PAYMENT_METHODS, rand)), rand, fk)
          [] rule = "category" ->
                UsesRand(StrVal(rule, "category", Choice(CATEGORIES, rand)), rand, fk)
          [] rule = "active" ->
                UsesRand(BoolVal(rule, "active", Choice(<<TRUE, FALSE>>, rand)), rand, fk)
          [] OTHER -> UsesNone(StrVal("fallback", "literal", <<"N","/","A">>), rand, fk)))

(***************************************************************************)
(* A row is a Python dict: keys in insertion order, one value per key.     *)
(***************************************************************************)
DictKeys(row) == [k \in 1..Len(row) |-> row[k].key]

DictHas(row, key) == \E k \in 1..Len(row) : row[k].key = key

DictGet(row, key) == row[CHOOSE k \in 1..Len(row) : row[k].key = key].val

\* row[key] = val
DictSet(row, key, val) ==
    IF DictHas(row, key)
    THEN [k \in 1..Len(row) |-> IF row[k].key = key THEN [key |-> key, val |-> val]
                                ELSE row[k]]
    ELSE Append(row, [key |-> key, val |-> val])

RECURSIVE ColumnLoop(_, _, _, _, _, _)
\* for col in columns: row[col] = ...   (k is the position reached, st the row
\* built so far with the generator states)
ColumnLoop(columns, k, pk_name, i, st, today) ==
    Bind(st, LAMBDA s :
        IF k > Len(columns) THEN s
        ELSE Bind(GenCell(columns[k], pk_name, i, s.rand, s.fake, today), LAMBDA out :
                 ColumnLoop(columns, k + 1, pk_name, i,
                            [row |-> DictSet(s.row, columns[k], out.cell),
                             rand |-> out.rand, fake |-> out.fake],
                            today)))

RECURSIVE RowLoop(_, _, _, _, _, _)
\* for i in range(1, last + 1): row = {}; ...; data.append(row)   (st is the
\* list built so far with the generator states)
RowLoop(columns, pk_name, i, last, st, today) ==
    Bind(st, LAMBDA s :
        IF i > last THEN s
        ELSE Bind(ColumnLoop(columns, 1, pk_name, i,
                             [row |-> <<>>, rand |-> s.rand, fake |-> s.fake], today),
                  LAMBDA out :
                 RowLoop(columns, pk_name, i + 1, last,
                         [data |-> Append(s.data, out.row),
                          rand |-> out.rand, fake |-> out.fake],
                         today)))

\* pk_name = columns[0] if columns else 'ID'
PkName(columns) == IF Len(columns) > 0 THEN columns[1] ELSE <<"I","D">>

\* the row loop written range(1, num_rows)
generate_dummy_data_short_range(table_name, columns, num_rows, rand, fk, today) ==
    Bind(RowLoop(columns, PkName(columns), 1, num_rows - 1,
                 [data |-> <<>>, rand |-> rand, fake |-> fk], today),
         LAMBDA out : [data |-> out.data, columns |-> columns,
                       rand |-> out.rand, fake |-> out.fake])

\* pk_name taken with columns.pop(0), which removes it from the caller's list
generate_dummy_data_pop(table_name, columns, num_rows, rand, fk, today) ==
    Bind(RowLoop(IF Len(columns) > 0 THEN Tail(columns) ELSE columns, PkName(columns), 1,
                 num_rows, [data |-> <<>>, rand |-> rand, fake |-> fk], today),
         LAMBDA out : [data |-> out.data,
                       columns |-> IF Len(columns) > 0 THEN Tail(columns) ELSE columns,
                       rand |-> out.rand, fake |-> out.fake])

\* the number of rows drawn at random up to num_rows
generate_dummy_data_random_rows(table_name, columns, num_rows, rand, fk, today) ==
    Bind(RowLoop(columns, PkName(columns), 1, RandInt(0, num_rows, rand),
                 [data |-> <<>>, rand |-> NextRand(rand), fake |-> fk], today),
         LAMBDA out : [data |-> out.data, columns |-> columns,
                       rand |-> out.rand, fake |-> out.fake])

\* generate_dummy_data(table_name, columns, num_rows): the list it returns, the
\* list object `columns` as the call leaves it, and the generator states after
generate_dummy_data(table_name, columns, num_rows, rand, fk, today) ==
    Bind(RowLoop(columns, PkName(columns), 1, num_rows,
                 [data |-> <<>>, rand |-> rand, fake |-> fk], today),
         LAMBDA out : [data |-> out.data, columns |-> columns,
                       rand |-> out.rand, fake |-> out.fake])

(***************************************************************************)
(* pd.DataFrame(data_rows, columns=columns) and df.to_csv(index=False).    *)
(***************************************************************************)
\* the frame's cell for one record and one column; a missing key is NaN
FrameCell(row, col) ==
    IF DictHas(row, col) THEN DictGet(row, col)
    ELSE [rule |-> "none", gen |-> "none", type |-> "nan", v |-> 0, scale |-> 1]

\* pd.DataFrame(data_rows, columns=columns)
DataFrame(rows, columns) ==
    [columns |-> columns,
     values |-> [r \in 1..Len(rows) |->
                    [c \in 1..Len(columns) |-> FrameCell(rows[r], columns[c])]]]

RECURSIVE DoubleQuotes(_)
\* every " of s doubled
DoubleQuotes(s) ==
    IF s = <<>> THEN <<>>
    ELSE (IF Head(s) = "\"" THEN <<"\"", "\"">> ELSE <<Head(s)>>) \o DoubleQuotes(Tail(s))

\* csv.writer with QUOTE_MINIMAL: a field holding the delimiter, the quote
\* character or a line break is quoted
CsvField(s) ==
    IF \E k \in 1..Len(s) : s[k] \in {",", "\"", "\n", "\r"}
    THEN <<"\"">> \o DoubleQuotes(s) \o <<"\"">>
    ELSE s

\* repr of a float kept as v / scale: the shortest digits, at least one decimal
FloatRepr(v, scale) ==
    LET whole == IntToChars(v \div scale)
        frac == v % scale
    IN  IF scale = 100 /\ frac % 10 # 0 THEN whole \o <<".">> \o ZeroPad(frac, 2)
        ELSE IF scale = 100 THEN whole \o <<".">> \o IntToChars(frac \div 10)
        ELSE whole \o <<".">> \o IntToChars(frac)

\* the text to_csv writes for one cell
CellText(cell) ==
    CASE cell.type = "int" -> IntToChars(cell.v)
      [] cell.type = "float" -> FloatRepr(cell.v, cell.scale)
      [] cell.type = "bool" -> (IF cell.v THEN <<"T","r","u","e">> ELSE <<"F","a","l","s","e">>)
      [] cell.type = "str" -> CsvField(cell.v)
      [] OTHER -> <<>>

RECURSIVE JoinFields(_)
\* ",".join(fields)
JoinFields(fields) ==
    IF fields = <<>> THEN <<>>
    ELSE IF Len(fields) = 1 THEN fields[1]
    ELSE fields[1] \o <<",">> \o JoinFields(Tail(fields))

\* df.to_csv(buffer, index=True): the row labels 0, 1, ... as a first column
to_csv_with_index(df) ==
    <<JoinFields(<<<<>>>> \o [c \in 1..Len(df.columns) |-> CsvField(df.columns[c])])>>
    \o [r \in 1..Len(df.values) |->
           JoinFields(<<IntToChars(r - 1)>>
                      \o [c \in 1..Len(df.columns) |-> CellText(df.values[r][c])])]

\* df.to_csv(buffer, index=False): the lines written, header first
to_csv(df) ==
    <<JoinFields([c \in 1..Len(df.columns) |-> CsvField(df.columns[c])])>>
    \o [r \in 1..Len(df.values) |->
           JoinFields([c \in 1..Len(df.columns) |-> CellText(df.values[r][c])])]

(***************************************************************************)
(* The process: the catalog, the two generators' states, the day          *)
(* datetime.now() falls on, and the request being served.  One request is  *)
(* served at a time: response is what its handler returned, gen_calls the  *)
(* number of calls of generate_dummy_data it made and data_rows what that  *)
(* call returned.                                                          *)
(***************************************************************************)
\* table names a client asks for: the catalog's and two that are not in it
RequestedTables == DOMAIN InitialSchema \cup {"Foo", "customers"}

\* column lists of direct calls of generate_dummy_data
TestColumns ==
    {<<>>,
     <<<<"N","a","m","e">>, <<"O","r","d","e","r","I","D">>, <<"i","d">>, <<"C","u","s","t","o","m","e","r","I","d">>>>,
     <<<<"O","r","d","e","r","I","D">>, <<"o","r","d","e","r","i","d">>, <<"O","r","d","e","r","I","D">>, <<"P","R","O","D","U","C","T","I","D">>>>,
     <<<<"T","i","t","l","e","I","d">>, <<"F","i","r","s","t","T","i","t","l","e">>, <<"L","a","s","t","F","i","r","s","t">>, <<"E","m","a","i","l","L","a","s","t">>, <<"P","h","o","n","e","E","m","a","i","l">>, <<"A","d","d","r","e","s","s","P","h","o","n","e">>,
       <<"C","i","t","y","L","o","c","a","t","i","o","n">>, <<"C","o","u","n","t","r","y","C","i","t","y">>>>,
     <<<<"P","o","s","i","t","i","o","n","C","o","u","n","t","r","y">>, <<"D","e","p","a","r","t","m","e","n","t","P","o","s","i","t","i","o","n">>, <<"C","o","m","m","e","n","t","D","e","p","a","r","t","m","e","n","t">>, <<"A","g","e","C","o","m","m","e","n","t">>,
       <<"P","r","i","c","e","A","g","e">>, <<"S","a","l","a","r","y","P","r","i","c","e">>, <<"S","t","o","c","k","S","a","l","a","r","y">>, <<"R","a","t","i","n","g","S","t","o","c","k">>>>,
     <<<<"C","o","u","n","t","R","a","t","i","n","g">>, <<"D","a","t","e","C","o","u","n","t">>, <<"S","t","a","t","u","s","D","a","t","e">>, <<"M","e","t","h","o","d","S","t","a","t","u","s">>, <<"C","a","t","e","g","o","r","y","M","e","t","h","o","d">>,
       <<"A","c","t","i","v","e","C","a","t","e","g","o","r","y">>, <<"A","c","t","i","v","e">>, <<"X","y","z">>>>}

Init ==
    /\ SCHEMA_DICT = InitialSchema
    /\ rand_state \in 0..(RandStates - 1)
    /\ fake_state \in 0..(FakeStates - 1)
    /\ now \in Dates
    /\ response = [route |-> "none"]
    /\ gen_calls = 0
    /\ data_rows = <<>>

\* no request is being served
Idle == response.route = "none"

\* GET /api/schema
get_schema ==
    /\ Idle
    /\ response' = [route |-> "schema", code |-> 200, status |-> "success",
                    data |-> SCHEMA_DICT]
    /\ gen_calls' = 0
    /\ data_rows' = <<>>
    /\ UNCHANGED <<SCHEMA_DICT, rand_state, fake_state, now>>

\* the not-found branch of download_csv
NotFound(table_name, code) ==
    /\ Idle
    /\ response' = [route |-> "download", table_name |-> table_name, code |-> code,
                    status |-> "error",
                    message |-> "Table '" \o table_name \o "' not found."]
    /\ gen_calls' = 0
    /\ data_rows' = <<>>
    /\ UNCHANGED <<SCHEMA_DICT, rand_state, fake_state, now>>

\* the return of download_csv after the file is built: out is what
\* generate_dummy_data gave back, body the lines to_csv wrote to the buffer
SendFile(table_name, out, body) ==
    /\ response' = [route |-> "download", table_name |-> table_name, code |-> 200,
                    as_attachment |-> TRUE,
                    download_name |-> table_name \o "_sample_data.csv",
                    mimetype |-> "text/csv",
                    body |-> body]
    /\ gen_calls' = 1
    /\ data_rows' = out.data
    /\ SCHEMA_DICT' = [SCHEMA_DICT EXCEPT ![table_name] = out.columns]
    /\ rand_state' = out.rand
    /\ fake_state' = out.fake
    /\ UNCHANGED now

\* download_csv whose not-found return lacks the 404
download_csv_no_status(table_name) ==
    IF table_name \notin DOMAIN SCHEMA_DICT THEN NotFound(table_name, 200)
    ELSE /\ Idle
         /\ \E out \in {generate_dummy_data(table_name, SCHEMA_DICT[table_name], NUM_ROWS,
                                             rand_state, fake_state, now)} :
            \E df \in {DataFrame(out.data, out.columns)} :
                SendFile(table_name, out, to_csv(df))

\* download_csv that writes the frame's index too
download_csv_index(table_name) ==
    IF table_name \notin DOMAIN SCHEMA_DICT THEN NotFound(table_name, 404)
    ELSE /\ Idle
         /\ \E out \in {generate_dummy_data(table_name, SCHEMA_DICT[table_name], NUM_ROWS,
                                             rand_state, fake_state, now)} :
            \E df \in {DataFrame(out.data, out.columns)} :
                SendFile(table_name, out, to_csv_with_index(df))

\* GET /api/download/csv/<table_name>.  After the call of generate_dummy_data the
\* name `columns` still denotes the catalog's own list object, so the frame is
\* built from that list as the call left it.
download_csv(table_name) ==
    IF table_name \notin DOMAIN SCHEMA_DICT THEN NotFound(table_name, 404)
    ELSE /\ Idle
         /\ \E out \in {generate_dummy_data(table_name, SCHEMA_DICT[table_name], NUM_ROWS,
                                             rand_state, fake_state, now)} :
            \E df \in {DataFrame(out.data, out.columns)} :
                SendFile(table_name, out, to_csv(df))

\* a direct call generate_dummy_data(table_name, SCHEMA_DICT[table_name], num_rows)
call_generate_table(table_name, num_rows) ==
    /\ Idle
    /\ \E out \in {generate_dummy_data(table_name, SCHEMA_DICT[table_name], num_rows,
                                        rand_state, fake_state, now)} :
        /\ response' = [route |-> "generate", table_name |-> table_name,
                        columns |-> SCHEMA_DICT[table_name], num_rows |-> num_rows,
                        columns_after |-> out.columns]
        /\ gen_calls' = 1
        /\ data_rows' = out.data
        /\ SCHEMA_DICT' = [SCHEMA_DICT EXCEPT ![table_name] = out.columns]
        /\ rand_state' = out.rand
        /\ fake_state' = out.fake
        /\ UNCHANGED now

\* a direct call generate_dummy_data("Adhoc", columns, num_rows) on a list of the caller
call_generate_columns(columns, num_rows) ==
    /\ Idle
    /\ \E out \in {generate_dummy_data("Adhoc", columns, num_rows,
                                        rand_state, fake_state, now)} :
        /\ response' = [route |-> "generate", table_name |-> "Adhoc",
                        columns |-> columns, num_rows |-> num_rows,
                        columns_after |-> out.columns]
        /\ gen_calls' = 1
        /\ data_rows' = out.data
        /\ rand_state' = out.rand
        /\ fake_state' = out.fake
        /\ UNCHANGED <<SCHEMA_DICT, now>>

\* the request is over: the response has gone to the client and the handler's
\* locals are dropped
request_done ==
    /\ ~Idle
    /\ response' = [route |-> "none"]
    /\ gen_calls' = 0
    /\ data_rows' = <<>>
    /\ UNCHANGED <<SCHEMA_DICT, rand_state, fake_state, now>>

Next ==
    \/ get_schema
    \/ request_done
    \/ \E table_name \in RequestedTables : download_csv(table_name)
    \/ \E table_name \in DOMAIN SCHEMA_DICT, num_rows \in 0..MaxRows :
          call_generate_table(table_name, num_rows)
    \/ \E columns \in TestColumns, num_rows \in 0..MaxRows :
          call_generate_columns(columns, num_rows)

Spec == Init /\ [][Next]_vars

(***************************************************************************)
(* What the properties below speak about.                                  *)
(***************************************************************************)
\* the last request called generate_dummy_data on a catalog table
OnCatalogTable == gen_calls = 1 /\ response.table_name \in DOMAIN InitialSchema

\* the column list the last call of generate_dummy_data was given
CallColumns ==
    IF response.route = "generate" THEN response.columns
    ELSE InitialSchema[response.table_name]

\* the row count the last call of generate_dummy_data was given
CallRows == IF response.route = "generate" THEN response.num_rows ELSE NUM_ROWS

\* the (row, position) pairs of the cells of data_rows
Cells == UNION {{<<r, k>> : k \in 1..Len(data_rows[r])} : r \in 1..Len(data_rows)}

CellKey(rk) == data_rows[rk[1]][rk[2]].key
CellVal(rk) == data_rows[rk[1]][rk[2]].val

\* C1: every call on a catalog table returns exactly num_rows rows, and the keys
\* of every row are the catalog's columns of that table, in catalog order.
C1_RowsAndColumns ==
    OnCatalogTable =>
        /\ Len(data_rows) = CallRows
        /\ \A r \in 1..Len(data_rows) :
              DictKeys(data_rows[r]) = InitialSchema[response.table_name]

C1_Witness ==
    /\ response.route = "generate"
    /\ response.table_name = "Orders"
    /\ response.num_rows = 2
    /\ Len(data_rows) = 2
    /\ Len(data_rows[2]) = 10

\* C2: in every row i of a dataset generated for a catalog table, the value of
\* the table's first column is the integer i, set from the row index and never
\* drawn at random.
C2_PrimaryKeyIsRowIndex ==
    OnCatalogTable =>
        \A i \in 1..Len(data_rows) :
            LET pk == DictGet(data_rows[i], InitialSchema[response.table_name][1])
            IN  pk.type = "int" /\ pk.v = i /\ pk.gen = "row_index"

C2_Witness ==
    /\ response.route = "download"
    /\ response.table_name = "Payments"
    /\ Len(data_rows) = 10
    /\ DictGet(data_rows[10], <<"P","a","y","m","e","n","t","I","D">>).v = 10

\* the range the `id` branch draws from for a column that is not the first one
ForeignKeyRange(col_lower) ==
    IF Contains(col_lower, <<"c","u","s","t","o","m","e","r","i","d">>) THEN 1001..1100
    ELSE IF Contains(col_lower, <<"p","r","o","d","u","c","t","i","d">>) THEN 2001..2100
    ELSE IF Contains(col_lower, <<"o","r","d","e","r","i","d">>) THEN 3001..3100
    ELSE 100..999

\* the value of column col in every row of data_rows lies in S
ColumnIn(col, S) ==
    \A r \in 1..Len(data_rows) :
        DictGet(data_rows[r], col).type = "int" /\ DictGet(data_rows[r], col).v \in S

\* C8: a column whose lower-cased name contains "id" and whose name is not the
\* first column's holds an integer of [1001,1100], [2001,2100], [3001,3100] or
\* [100,999], by the first of customerid, productid, orderid its name contains.
C8_ForeignKeyRanges ==
    /\ gen_calls = 1 =>
          \A rk \in Cells :
              (Contains(Lower(CellKey(rk)), <<"i","d">>) /\ CellKey(rk) # CallColumns[1]) =>
                  /\ CellVal(rk).type = "int"
                  /\ CellVal(rk).v \in ForeignKeyRange(Lower(CellKey(rk)))
    /\ OnCatalogTable =>
          LET t == response.table_name
          IN  /\ t = "Customers" => \A r \in 1..Len(data_rows) :
                                        DictGet(data_rows[r], <<"C","u","s","t","o","m","e","r","I","D">>).v = r
              /\ t \in {"Orders", "Reviews"} => ColumnIn(<<"C","u","s","t","o","m","e","r","I","D">>, 1001..1100)
              /\ t = "Categories" => ColumnIn(<<"P","a","r","e","n","t","C","a","t","e","g","o","r","y","I","D">>, 100..999)
              /\ t = "Products" => ColumnIn(<<"S","u","p","p","l","i","e","r","I","D">>, 100..999)
              /\ t = "Employees" => ColumnIn(<<"M","a","n","a","g","e","r","I","D">>, 100..999)
              /\ t = "Inventory" => ColumnIn(<<"W","a","r","e","h","o","u","s","e","I","D">>, 100..999)
              /\ t = "Payments" => ColumnIn(<<"T","r","a","n","s","a","c","t","i","o","n","I","D">>, 100..999)

C8_Witness ==
    /\ response.route = "download"
    /\ response.table_name = "Orders"
    /\ \E r \in 1..Len(data_rows) : DictGet(data_rows[r], <<"C","u","s","t","o","m","e","r","I","D">>).v = 1100
    /\ \E r \in 1..Len(data_rows) : DictGet(data_rows[r], <<"C","u","s","t","o","m","e","r","I","D">>).v = 1001

\* C9: a cell holds the row index exactly when its column's lower-cased name
\* contains "id" and the column's name is the first name of the list passed in;
\* a first column without "id" is classified by the ordinary rules, and for an
\* empty list every row is an empty mapping.
C9_RowIndexIffFirstIdColumn ==
    gen_calls = 1 =>
        /\ \A rk \in Cells :
              CellVal(rk).gen = "row_index" <=>
                  (Contains(Lower(CellKey(rk)), <<"i","d">>) /\ CellKey(rk) = CallColumns[1])
        /\ \A rk \in Cells : CellVal(rk).gen = "row_index" => CellVal(rk).v = rk[1]
        /\ (CallColumns # <<>> /\ ~Contains(Lower(CallColumns[1]), <<"i","d">>)) =>
              \A rk \in Cells : /\ CellVal(rk).gen # "row_index"
                                /\ CellKey(rk) = CallColumns[1] => CellVal(rk).rule # "id"
        /\ CallColumns = <<>> =>
              /\ Len(data_rows) = CallRows
              /\ \A r \in 1..Len(data_rows) : data_rows[r] = <<>>

C9_Witness ==
    /\ response.route = "generate"
    /\ response.columns = <<<<"N","a","m","e">>, <<"O","r","d","e","r","I","D">>, <<"i","d">>, <<"C","u","s","t","o","m","e","r","I","d">>>>
    /\ response.num_rows = 2
    /\ DictGet(data_rows[2], <<"N","a","m","e">>).rule = "name"
    /\ DictGet(data_rows[2], <<"O","r","d","e","r","I","D">>).gen = "orderid"

C9_WitnessEmpty ==
    /\ response.route = "generate"
    /\ response.columns = <<>>
    /\ data_rows = <<<<>>, <<>>>>

(***************************************************************************)
(* The rule order as the specification lists it: each rule with the        *)
(* keywords whose presence in the lower-cased name selects it.             *)
(***************************************************************************)
RULE_ORDER ==
    <<[rule |-> "id", keys |-> {<<"i","d">>}],
      [rule |-> "name", keys |-> {<<"n","a","m","e">>, <<"t","i","t","l","e">>}],
      [rule |-> "first", keys |-> {<<"f","i","r","s","t">>}],
      [rule |-> "last", keys |-> {<<"l","a","s","t">>}],
      [rule |-> "email", keys |-> {<<"e","m","a","i","l">>}],
      [rule |-> "phone", keys |-> {<<"p","h","o","n","e">>}],
      [rule |-> "address", keys |-> {<<"a","d","d","r","e","s","s">>, <<"l","o","c","a","t","i","o","n">>}],
      [rule |-> "city", keys |-> {<<"c","i","t","y">>}],
      [rule |-> "country", keys |-> {<<"c","o","u","n","t","r","y">>}],
      [rule |-> "position", keys |-> {<<"p","o","s","i","t","i","o","n">>}],
      [rule |-> "department", keys |-> {<<"d","e","p","a","r","t","m","e","n","t">>}],
      [rule |-> "description", keys |-> {<<"d","e","s","c","r","i","p","t","i","o","n">>, <<"c","o","m","m","e","n","t">>}],
      [rule |-> "age", keys |-> {<<"a","g","e">>}],
      [rule |-> "price", keys |-> {<<"p","r","i","c","e">>, <<"a","m","o","u","n","t">>, <<"c","o","s","t">>}],
      [rule |-> "salary", keys |-> {<<"s","a","l","a","r","y">>}],
      [rule |-> "stock", keys |-> {<<"s","t","o","c","k">>, <<"q","u","a","n","t","i","t","y">>}],
      [rule |-> "rating", keys |-> {<<"r","a","t","i","n","g">>}],
      [rule |-> "count", keys |-> {<<"c","o","u","n","t">>}],
      [rule |-> "date", keys |-> {<<"d","a","t","e">>}],
      [rule |-> "status", keys |-> {<<"s","t","a","t","u","s">>}],
      [rule |-> "method", keys |-> {<<"m","e","t","h","o","d">>}],
      [rule |-> "category", keys |-> {<<"c","a","t","e","g","o","r","y">>}],
      [rule |-> "active", keys |-> {<<"a","c","t","i","v","e">>}]>>

\* the positions in RULE_ORDER of the rules whose condition holds for a name
MatchingRules(name) ==
    LET lowered == Lower(name)
    IN  {k \in 1..Len(RULE_ORDER) : \E key \in RULE_ORDER[k].keys : Contains(lowered, key)}

\* the earliest rule of RULE_ORDER whose condition holds, or the fallback
EarliestRule(name) ==
    LET matching == MatchingRules(name)
    IN  IF matching = {} THEN "fallback"
        ELSE RULE_ORDER[CHOOSE k \in matching : \A j \in matching : k <= j].rule

\* the generator calls each rule may make
RULE_GENERATORS ==
    [id |-> {"row_index", "customerid", "productid", "orderid", "otherid"},
     name |-> {"catch_phrase", "name"}, first |-> {"first_name"}, last |-> {"last_name"},
     email |-> {"email"}, phone |-> {"phone_number"}, address |-> {"street_address"},
     city |-> {"city"}, country |-> {"country"}, position |-> {"job"},
     department |-> {"department"}, description |-> {"sentence"}, age |-> {"age"},
     price |-> {"price"}, salary |-> {"salary"}, stock |-> {"stock"},
     rating |-> {"rating"}, count |-> {"count"},
     date |-> {"date_this_year", "delivery", "expiry", "date_this_month"},
     status |-> {"status"}, method |-> {"method"}, category |-> {"category"},
     active |-> {"active"}, fallback |-> {"literal"}]

\* C5: every cell's value is produced by the generator of the earliest rule, in
\* the specification's order, whose keyword the lower-cased column name
\* contains, and by the fallback "N/A" only when no rule's keyword occurs.
C5_FirstMatchWins ==
    gen_calls = 1 =>
        \A rk \in Cells :
            LET earliest == EarliestRule(CellKey(rk))
            IN  /\ CellVal(rk).rule = earliest
                /\ CellVal(rk).gen \in RULE_GENERATORS[earliest]
                /\ (CellVal(rk).type = "str" /\ CellVal(rk).v = <<"N","/","A">>) <=>
                       earliest = "fallback"

C5_Witness ==
    /\ response.route = "generate"
    /\ response.num_rows = 1
    /\ DictHas(data_rows[1], <<"S","t","a","t","u","s","D","a","t","e">>)
    /\ DictGet(data_rows[1], <<"S","t","a","t","u","s","D","a","t","e">>).rule = "date"
    /\ DictGet(data_rows[1], <<"A","c","t","i","v","e","C","a","t","e","g","o","r","y">>).rule = "category"
    /\ DictGet(data_rows[1], <<"X","y","z">>).v = <<"N","/","A">>

\* the catalog columns for which no rule matches
FALLBACK_COLUMNS ==
    {<<"M","a","n","u","f","a","c","t","u","r","e","r">>, <<"W","e","i","g","h","t">>, <<"P","o","s","t","a","l","C","o","d","e">>, <<"C","u","r","r","e","n","c","y">>, <<"S","o","r","t","O","r","d","e","r">>, <<"R","e","o","r","d","e","r","P","o","i","n","t">>,
     <<"B","a","t","c","h","N","u","m","b","e","r">>, <<"V","e","r","i","f","i","e","d","P","u","r","c","h","a","s","e">>, <<"R","e","s","p","o","n","s","e">>, <<"C","a","r","r","i","e","r">>, <<"T","r","a","c","k","i","n","g","N","u","m","b","e","r">>,
     <<"E","s","t","i","m","a","t","e","d","D","e","l","i","v","e","r","y">>, <<"A","c","t","u","a","l","D","e","l","i","v","e","r","y">>}

\* C10: in the catalog, FirstName and LastName get a full person name and no
\* column gets a first name; LastUpdated and CardLastFour get a last name;
\* ImageURL gets an integer of [18,65]; and "N/A" is produced for exactly the
\* 13 columns of FALLBACK_COLUMNS.
C10_CatalogClassification ==
    OnCatalogTable =>
        \A rk \in Cells :
            /\ CellKey(rk) \in {<<"F","i","r","s","t","N","a","m","e">>, <<"L","a","s","t","N","a","m","e">>} =>
                  /\ CellVal(rk).gen = "name"
                  /\ \E k \in 1..Len(FakeName) : CellVal(rk).v = FakeName[k]
            /\ CellVal(rk).rule # "first" /\ CellVal(rk).gen # "first_name"
            /\ CellKey(rk) \in {<<"L","a","s","t","U","p","d","a","t","e","d">>, <<"C","a","r","d","L","a","s","t","F","o","u","r">>} =>
                  /\ CellVal(rk).gen = "last_name"
                  /\ \E k \in 1..Len(FakeLastName) : CellVal(rk).v = FakeLastName[k]
            /\ CellKey(rk) = <<"I","m","a","g","e","U","R","L">> =>
                  /\ CellVal(rk).rule = "age"
                  /\ CellVal(rk).type = "int"
                  /\ CellVal(rk).v \in 18..65
            /\ CellKey(rk) \in FALLBACK_COLUMNS <=> CellVal(rk).rule = "fallback"
            /\ CellVal(rk).rule = "fallback" <=>
                  (CellVal(rk).type = "str" /\ CellVal(rk).v = <<"N","/","A">>)

C10_Witness ==
    /\ response.route = "download"
    /\ response.table_name = "Categories"
    /\ Len(data_rows) = 10
    /\ DictGet(data_rows[1], <<"I","m","a","g","e","U","R","L">>).v = 18
    /\ DictGet(data_rows[1], <<"S","o","r","t","O","r","d","e","r">>).v = <<"N","/","A">>

(***************************************************************************)
(* Reading a CSV line back: fields split at commas outside quotes, quoted  *)
(* fields unquoted, doubled quotes undone.                                 *)
(***************************************************************************)
\* the least element of a non-empty set of integers
Least(S) == CHOOSE p \in S : \A q \in S : p <= q

\* the number of quote characters of line at positions lo..hi
QuotesIn(line, lo, hi) == Cardinality({p \in lo..hi : line[p] = "\""})

\* the position of the last character of the field that starts at position k
FieldEnd(line, k) ==
    IF k <= Len(line) /\ line[k] = "\""
    THEN Least({j \in (k + 1)..Len(line) :
                    /\ line[j] = "\""
                    /\ j = Len(line) \/ line[j + 1] = ","
                    /\ QuotesIn(line, k + 1, j - 1) % 2 = 0})
    ELSE Least({p \in k..(Len(line) + 1) : p = Len(line) + 1 \/ line[p] = ","}) - 1

\* s with the second quote of every doubled quote dropped
Undouble(s) ==
    LET kept == {p \in 1..Len(s) : ~(s[p] = "\"" /\ QuotesIn(s, 1, p) % 2 = 0)}
    IN  [n \in 1..Cardinality(kept) |->
            s[CHOOSE p \in kept : Cardinality({q \in kept : q <= p}) = n]]

\* the text of the field of line at positions k..e
FieldText(line, k, e) ==
    IF k <= Len(line) /\ line[k] = "\"" THEN Undouble(SubSeq(line, k + 1, e - 1))
    ELSE SubSeq(line, k, e)

RECURSIVE FieldsFrom(_, _)
\* the fields of line from position k on
FieldsFrom(line, k) ==
    LET e == FieldEnd(line, k)
    IN  <<FieldText(line, k, e)>>
        \o (IF e + 1 > Len(line) THEN <<>> ELSE FieldsFrom(line, e + 2))

ParseCsvLine(line) == FieldsFrom(line, 1)

ONE_TO_TEN == <<<<"1">>, <<"2">>, <<"3">>, <<"4">>, <<"5">>, <<"6">>, <<"7">>, <<"8">>, <<"9">>, <<"1","0">>>>

\* C4: a download of a catalog table succeeds with the file
\* <tableName>_sample_data.csv: a header row of the table's column names in
\* catalog order, then exactly 10 data rows of one field per column; for
\* Customers the header is the literal line below and the CustomerID fields
\* are 1..10 in order.
C4_CsvFile ==
    (response.route = "download" /\ response.table_name \in DOMAIN InitialSchema) =>
        LET t == response.table_name
        IN  /\ response.code = 200
            /\ response.mimetype = "text/csv"
            /\ response.as_attachment
            /\ response.download_name = t \o "_sample_data.csv"
            /\ Len(response.body) = 11
            /\ ParseCsvLine(response.body[1]) = InitialSchema[t]
            /\ \A i \in 1..10 :
                  LET fields == ParseCsvLine(response.body[i + 1])
                  IN  /\ Len(fields) = Len(InitialSchema[t])
                      /\ fields[1] = ONE_TO_TEN[i]
                      /\ \A c \in 1..Len(fields) :
                            DictGet(data_rows[i], InitialSchema[t][c]).type = "str" =>
                                fields[c] = DictGet(data_rows[i], InitialSchema[t][c]).v
            /\ t = "Customers" =>
                  /\ response.download_name = "Customers_sample_data.csv"
                  /\ response.body[1] =
                        <<"C","u","s","t","o","m","e","r","I","D",",","F","i","r","s","t","N","a","m","e",",","L","a","s","t","N","a","m","e",",","E","m","a","i","l",",","P","h","o","n","e",",","A","g","e",",","A","d","d","r","e","s","s",",","C","i","t","y",",","C","o","u","n","t","r","y",",","J","o","i","n","D","a","t","e">>

C4_Witness ==
    /\ response.route = "download"
    /\ response.table_name = "Customers"
    /\ response.code = 200
    /\ Len(response.body) = 11
    /\ ParseCsvLine(response.body[11])[1] = <<"1","0">>

\* a quoted field reaches the file: a job title with a comma
C4_WitnessQuoted ==
    /\ response.route = "download"
    /\ response.table_name = "Employees"
    /\ response.code = 200
    /\ \E i \in 2..11 : ParseCsvLine(response.body[i])[4] = <<"E","n","g","i","n","e","e","r",","," ","c","i","v","i","l"," ","(","c","o","n","s","u","l","t","i","n","g",")">>

\* C3: a download of a table name that is not in the catalog ends with 404, status
\* "error" and a message naming the table, calls no row generation and
\* carries no row data; it leaves the catalog and both generators as they
\* were, so that once it is over the process is in the state it was in before.
C3_UnknownTable ==
    [][/\ (Idle /\ response'.route = "download"
                /\ response'.table_name \notin DOMAIN SCHEMA_DICT) =>
              /\ response'.code = 404
              /\ response'.status = "error"
              /\ response'.message = "Table '" \o response'.table_name \o "' not found."
              /\ response'.table_name = "Foo" => response'.message = "Table 'Foo' not found."
              /\ DOMAIN response' = {"route", "table_name", "code", "status", "message"}
              /\ gen_calls' = 0
              /\ data_rows' = <<>>
              /\ <<SCHEMA_DICT, rand_state, fake_state, now>>' =
                    <<SCHEMA_DICT, rand_state, fake_state, now>>
       /\ (response.route = "download" /\ response.code # 200) =>
              /\ Idle'
              /\ gen_calls' = 0
              /\ data_rows' = <<>>
              /\ <<SCHEMA_DICT, rand_state, fake_state, now>>' =
                    <<SCHEMA_DICT, rand_state, fake_state, now>>
       /\ Idle => (gen_calls = 0 /\ data_rows = <<>>)
      ]_vars

C3_Witness ==
    /\ response.route = "download"
    /\ response.table_name = "Foo"
    /\ response.code = 404
    /\ response.message = "Table 'Foo' not found."

\* the shape of a dataset: per row, the keys in order, each with the Python
\* type and the generator of its value
Shape(data) ==
    [r \in 1..Len(data) |->
        [k \in 1..Len(data[r]) |->
            <<data[r][k].key, data[r][k].val.type, data[r][k].val.gen>>]]

\* the earliest day of Dates
ReferenceDay == CHOOSE d \in Dates : \A e \in Dates : d.year <= e.year

\* C6: a call's result has the shape of the result of the call with the same
\* columns and row count made with both generators in their first state on
\* the reference day; so any two calls with identical inputs agree in row
\* count, column set and value kinds, whatever the generators return.
C6_IdempotentShape ==
    gen_calls = 1 =>
        Shape(data_rows) =
            Shape(generate_dummy_data(response.table_name, CallColumns, CallRows,
                                      0, 0, ReferenceDay).data)

C6_Witness ==
    /\ response.route = "generate"
    /\ response.table_name = "Products"
    /\ response.num_rows = 2
    /\ rand_state # 0
    /\ data_rows # generate_dummy_data("Products", InitialSchema["Products"], 2,
                                       0, 0, ReferenceDay).data

\* C7: the catalog always holds the ten initial tables with their initial
\* columns in their initial order, and a call of generate_dummy_data leaves the
\* column list it was given as it was.
C7_CatalogReadOnly ==
    /\ SCHEMA_DICT = InitialSchema
    /\ Cardinality(DOMAIN SCHEMA_DICT) = 10
    /\ \A t \in DOMAIN SCHEMA_DICT : Len(SCHEMA_DICT[t]) = 10
    /\ response.route = "generate" => response.columns_after = response.columns
    /\ response.route = "schema" => response.data = InitialSchema

C7_Witness ==
    /\ response.route = "download"
    /\ response.code = 200
    /\ response.table_name = "Shipments"
    /\ SCHEMA_DICT["Shipments"][10] = <<"D","e","l","i","v","e","r","y","A","d","d","r","e","s","s">>

====
